---------------------------- MODULE Spec2Model ----------------------------
(***************************************************************************)
(* A model of the Flask bank register (src/app.py): the banks table, the   *)
(* scoped database connection, and the web and JSON handlers, each handler *)
(* a sequence of steps that interleave at its database round trips.        *)
(***************************************************************************)
EXTENDS Integers, Sequences, FiniteSets, TLC

(***************************************************************************)
(* Bounds of the model.                                                    *)
(***************************************************************************)
\* The IDENTITY counter is capped: inserts start only while it is <= MaxId.
MaxId == 2

\* The request slots: Procs may run concurrently, SeqProcs one at a time.
Procs == {1, 2}
SeqProcs == {1}

(***************************************************************************)
(* Strings are sequences of characters, so that str.strip() and ORDER BY   *)
(* are computed, not assumed.                                              *)
(***************************************************************************)
SP == " "
Ord(c) == CASE c = SP -> 32 [] c = "a" -> 97 [] c = "b" -> 98
            [] c = "x" -> 120 [] c = "y" -> 121 [] OTHER -> 0

RECURSIVE LStrip(_)
LStrip(s) == IF s # <<>> /\ Head(s) = SP THEN LStrip(Tail(s)) ELSE s

RECURSIVE RStrip(_)
RStrip(s) == IF s # <<>> /\ s[Len(s)] = SP
             THEN RStrip(SubSeq(s, 1, Len(s) - 1)) ELSE s

StripLeft(s) == LStrip(s)
\* str.strip(): leading and trailing whitespace removed.
Strip(s) == RStrip(LStrip(s))

\* Ascending order of the ORDER BY name clause (lexicographic).
RECURSIVE StrLeq(_, _)
StrLeq(s, t) ==
    IF s = <<>> THEN TRUE
    ELSE IF t = <<>> THEN FALSE
    ELSE IF Ord(Head(s)) < Ord(Head(t)) THEN TRUE
    ELSE IF Ord(Head(s)) > Ord(Head(t)) THEN FALSE
    ELSE StrLeq(Tail(s), Tail(t))

(***************************************************************************)
(* Request inputs.                                                         *)
(***************************************************************************)
NameInputs == {<<>>, <<SP>>, <<"a">>, <<SP, "b", SP>>}
LocationInputs == {<<>>, <<SP, SP>>, <<"x">>, <<"y", SP>>}
\* <int:bank_id> of the routes; MaxId + 1 is an id no insert ever produces.
IdInputs == 1..(MaxId + 1)

\* A field of a request body: absent, a string, or a JSON value that is no string.
Missing == [t |-> "missing", s |-> <<>>]
NonString == [t |-> "number", s |-> <<>>]
\* The number n as the value of a field.
Num(n) == [t |-> "number", s |-> <<n>>]
Str(s) == [t |-> "string", s |-> s]

NameFields == {Missing, NonString} \cup {Str(s) : s \in NameInputs}
LocationFields == {Missing, NonString} \cup {Str(s) : s \in LocationInputs}

\* request.form of a POST, and "no body" of the other requests.
Form(n, l) == [shape |-> "form", name |-> n, location |-> l, id |-> Missing]
NoBody == [shape |-> "none", name |-> Missing, location |-> Missing, id |-> Missing]
Forms == {Form(n, l) : n \in NameFields \ {NonString}, l \in LocationFields \ {NonString}}

\* request.get_json(): an object with the keys it has, an array, or null.
JsonObject(n, l, i) == [shape |-> "object", name |-> n, location |-> l, id |-> i]
JsonArray == [shape |-> "array", name |-> Missing, location |-> Missing, id |-> Missing]
JsonNull == [shape |-> "null", name |-> Missing, location |-> Missing, id |-> Missing]
\* Some bodies carry an "id" key as well: the client asks for id 1.
JsonBodies == {JsonArray, JsonNull} \cup
              {JsonObject(n, l, Missing) : n \in NameFields, l \in LocationFields} \cup
              {JsonObject(n, l, Num(1)) : n \in {Missing, Str(<<"a">>)},
                                          l \in {Missing, Str(<<"x">>)}}
\* The bodies of the concurrent runs: valid ones, one per written value.
ValidBodies == {JsonObject(Str(<<"a">>), Str(<<"x">>), Missing),
                JsonObject(Str(<<SP, "b", SP>>), Str(<<"y", SP>>), Missing)}

\* Python truth of the parsed body: None and the empty dict are falsy.
Truthy(data) ==
    CASE data.shape = "null" -> FALSE
      [] data.shape = "object" ->
            ~(data.name = Missing /\ data.location = Missing /\ data.id = Missing)
      [] OTHER -> TRUE

\* data.get(key, "") / request.form.get(key, ""): the default when absent.
Get(field) == IF field.t = "missing" THEN Str(<<>>) ELSE field

\* .get(...).strip() raises AttributeError on a list body or a non-string value.
RaisesAttributeError(data) ==
    \/ data.shape = "array"
    \/ Get(data.name).t # "string"
    \/ Get(data.location).t # "string"

(***************************************************************************)
(* The state.                                                              *)
(***************************************************************************)
VARIABLES
    tableExists,  \* the banks table has been created
    banks,        \* the committed rows of the table
    nextId,       \* the IDENTITY(1,1) counter of the table
    serving,      \* "boot", "up" (app.run) or "aborted" (init raised)
    session,      \* the pending flashed notices of the browser session
    follow,       \* the redirect the browser is about to follow
    acked,        \* history: the last write the API acknowledged to its client
    proc          \* the request each slot handles and where it stands

vars == <<tableExists, banks, nextId, serving, session, follow, acked, proc>>

NoWrite == [op |-> "none", id |-> 0, name |-> <<>>, location |-> <<>>]
NoConn == [state |-> "none", h |-> 0, pending |-> NoWrite, identity |-> 0]
NoResp == [status |-> 0, type |-> "none", target |-> "", id |-> 0,
           success |-> FALSE, data |-> <<>>, error |-> "", count |-> -1,
           message |-> "", notices |-> <<>>]

Idle == [pc |-> "idle", handler |-> "", method |-> "", bank_id |-> 0,
         body |-> NoBody, name |-> <<>>, location |-> <<>>, conn |-> NoConn,
         opened |-> 0, closed |-> 0, fetched |-> <<>>, rowcount |-> -1,
         new_id |-> 0, raised |-> FALSE, resp |-> NoResp]

\* url_for(endpoint, bank_id=...): where a redirect leads.
Target(endpoint, bank_id) == [endpoint |-> endpoint, id |-> bank_id]
NoFollow == Target("", 0)

\* What a client knows after a write was acknowledged: the id, and the name and
\* location it sent. It is forgotten once another write to that id commits.
Ack(op, bank_id, body) ==
    [op |-> op, id |-> bank_id, name |-> body.name.s, location |-> body.location.s]
NoAck == Ack("none", 0, NoBody)

Row(i, n, l) == [id |-> i, name |-> n, location |-> l]
RowIds(rows) == {r.id : r \in rows}

Init ==
    /\ tableExists = FALSE
    /\ banks = {}
    /\ nextId = 1
    /\ serving = "boot"
    /\ session = <<>>
    /\ follow = NoFollow
    /\ acked = NoAck
    /\ proc = [p \in Procs |-> Idle]

(***************************************************************************)
(* get_db_connection: the scoped connection.                               *)
(***************************************************************************)
OpenHandles == {proc[q].conn.h : q \in {q \in Procs : proc[q].conn.state = "open"}}

\* pyodbc.connect returns a new connection object: a handle no request holds.
NewHandle == CHOOSE h \in 1..(Cardinality(Procs) + 1) :
                /\ h \notin OpenHandles
                /\ \A g \in 1..(Cardinality(Procs) + 1) : g \notin OpenHandles => h <= g

\* conn = pyodbc.connect(...); yield conn
Connected(r) ==
    [r EXCEPT !.conn = [state |-> "open", h |-> NewHandle, pending |-> NoWrite,
                        identity |-> 0],
              !.opened = @ + 1]

NeverClosed(r) == r
\* finally: if conn: conn.close(). An uncommitted statement is rolled back.
Closed(r) ==
    IF r.conn.state = "open"
    THEN [r EXCEPT !.conn = [NoConn EXCEPT !.state = "closed"], !.closed = @ + 1]
    ELSE r

\* A round trip raises pyodbc.Error when the server does not answer (ok is
\* FALSE) and, for a statement on banks, when the table does not exist.
StatementOk(ok) == ok /\ tableExists

\* Row locks of the backend: a write on a row waits for another
\* connection's uncommitted write on the same row.
Unlocked(p, i) ==
    \A q \in Procs \ {p} :
        ~(proc[q].conn.state = "open" /\ proc[q].conn.pending.op \in {"update", "delete"}
          /\ proc[q].conn.pending.id = i)

\* A committed update or delete of the acknowledged id ends what is known of it.
Forget(w) == IF w.op \in {"update", "delete"} /\ w.id = acked.id THEN NoAck ELSE acked

CommittedEveryRow(rows, w) ==
    CASE w.op = "insert" -> rows \cup {Row(w.id, w.name, w.location)}
      [] w.op = "update" -> {Row(r.id, w.name, w.location) : r \in rows}
      [] w.op = "delete" -> {r \in rows : r.id # w.id}
      [] OTHER -> rows
CommittedNameOnly(rows, w) ==
    CASE w.op = "insert" -> rows \cup {Row(w.id, w.name, w.location)}
      [] w.op = "update" ->
            {IF r.id = w.id THEN Row(r.id, w.name, r.location) ELSE r : r \in rows}
      [] w.op = "delete" -> {r \in rows : r.id # w.id}
      [] OTHER -> rows
\* conn.commit(): the pending statement of the connection takes effect.
Committed(rows, w) ==
    CASE w.op = "insert" -> rows \cup {Row(w.id, w.name, w.location)}
      [] w.op = "update" ->
            {IF r.id = w.id THEN Row(r.id, w.name, w.location) ELSE r : r \in rows}
      [] w.op = "delete" -> {r \in rows : r.id # w.id}
      [] OTHER -> rows

\* SELECT id, name, location FROM banks WHERE id = ?; fetchone()
SelectById(i) ==
    IF \E r \in banks : r.id = i
    THEN <<CHOOSE r \in banks : r.id = i>>
    ELSE <<>>

Sorted(s) == \A i \in 1..(Len(s) - 1) : StrLeq(s[i].name, s[i + 1].name)
Listings(rows) ==
    {s \in [1..Cardinality(rows) -> rows] : \A i, j \in DOMAIN s : i # j => s[i] # s[j]}
AnyOrder(rows) == Listings(rows)
\* SELECT id, name, location FROM banks ORDER BY name; fetchall(): the rows in
\* ascending order of name, rows of equal name in any order.
SelectAllOrdered(rows) == {s \in Listings(rows) : Sorted(s)}

(***************************************************************************)
(* Responses.                                                              *)
(***************************************************************************)
DbError == "pyodbc.Error"
AttributeError == "AttributeError"
\* str(e) of the exception a handler caught.
ErrorText(r) == IF r.raised THEN AttributeError ELSE DbError

Json(status, success, data, error, count, message) ==
    [NoResp EXCEPT !.status = status, !.type = "json", !.success = success,
                   !.data = data, !.error = error, !.count = count,
                   !.message = message]
JsonError(status, error) == Json(status, FALSE, <<>>, error, -1, "")

\* A slot answers: its response is set and the request is over.
Respond(r, resp) == [r EXCEPT !.pc = "done", !.resp = resp]

\* A request arrives at an idle slot of the serving application.
Arrive(p) == serving = "up" /\ proc[p].pc = "idle" /\ follow = NoFollow
\* A GET arrives, of the browser's own accord or following a redirect to it.
ArriveAt(p, endpoint, bank_id) ==
    /\ serving = "up"
    /\ proc[p].pc = "idle"
    /\ follow \in {NoFollow, Target(endpoint, bank_id)}
Request(handler, method, bank_id, body) ==
    [Idle EXCEPT !.pc = "begin", !.handler = handler, !.method = method,
                 !.bank_id = bank_id, !.body = body]
At(p, handler, pc) == proc[p].handler = handler /\ proc[p].pc = pc
Set(p, r) == proc' = [proc EXCEPT ![p] = r]

\* Creates whose INSERT is still to come: they will each take an id.
InsertsToCome ==
    Cardinality({q \in Procs : proc[q].pc \in {"connect", "insert"}
                               /\ proc[q].handler \in {"create_bank", "api_create_bank"}})
IdsLeft == nextId + InsertsToCome <= MaxId

\* name = ....get("name", "").strip(); location likewise
Stripped(r) ==
    [r EXCEPT !.name = Strip(Get(r.body.name).s),
              !.location = Strip(Get(r.body.location).s)]
\* if not name or not location: the validation both create and update run
Valid(r) == r.name # <<>> /\ r.location # <<>>

(***************************************************************************)
(* init_database                                                           *)
(***************************************************************************)
init_database_fail(r) == [Closed(r) EXCEPT !.pc = "done", !.raised = TRUE]

\* init_database() is called at startup (__main__) and by the test fixture.
init_database(p) ==
    /\ serving \in {"boot", "up"}
    /\ \A q \in Procs : serving = "boot" => proc[q].pc = "idle"
    /\ proc[p].pc = "idle"
    /\ Set(p, [Request("init_database", "", 0, NoBody) EXCEPT !.pc = "connect"])
    /\ UNCHANGED <<tableExists, banks, nextId, serving, session, follow, acked>>

init_database_connect(p, ok) ==
    /\ At(p, "init_database", "connect")
    /\ Set(p, IF ok THEN [Connected(proc[p]) EXCEPT !.pc = "create_table"]
              ELSE init_database_fail(proc[p]))
    /\ UNCHANGED <<tableExists, banks, nextId, serving, session, follow, acked>>

\* IF NOT EXISTS (...) CREATE TABLE banks (...)
init_database_execute(p, ok) ==
    /\ At(p, "init_database", "create_table")
    /\ Set(p, IF ok
              THEN [proc[p] EXCEPT !.pc = "commit",
                       !.conn.pending = IF tableExists THEN NoWrite
                                        ELSE [NoWrite EXCEPT !.op = "create_table"]]
              ELSE init_database_fail(proc[p]))
    /\ UNCHANGED <<tableExists, banks, nextId, serving, session, follow, acked>>

init_database_commit_recreate(p, ok) ==
    /\ At(p, "init_database", "commit")
    /\ Set(p, IF ok THEN [Closed(proc[p]) EXCEPT !.pc = "done"]
              ELSE init_database_fail(proc[p]))
    /\ tableExists' = (tableExists \/ ok)
    /\ banks' = IF ok THEN {} ELSE banks
    /\ UNCHANGED <<nextId, serving, session, follow, acked>>

init_database_commit(p, ok) ==
    /\ At(p, "init_database", "commit")
    /\ Set(p, IF ok THEN [Closed(proc[p]) EXCEPT !.pc = "done"]
              ELSE init_database_fail(proc[p]))
    /\ tableExists' = (tableExists \/ (ok /\ proc[p].conn.pending.op = "create_table"))
    /\ UNCHANGED <<banks, nextId, serving, session, follow, acked>>

\* __main__: app.run() after init_database(), or the exception re-raised.
init_database_return(p) ==
    /\ At(p, "init_database", "done")
    /\ Set(p, Idle)
    /\ serving' = IF serving = "boot"
                  THEN (IF proc[p].raised THEN "aborted" ELSE "up")
                  ELSE serving
    /\ UNCHANGED <<tableExists, banks, nextId, session, follow, acked>>

(***************************************************************************)
(* The JSON API                                                            *)
(***************************************************************************)
api_swallow(r) == Respond(Closed(r), Json(200, TRUE, <<>>, "", -1, ""))
\* except Exception as e: return jsonify({"success": False, "error": str(e)}), 500
api_fail(r) == Respond(Closed(r), JsonError(500, ErrorText(r)))

NotFound == JsonError(404, "Bank not found")

\* ---- GET /api/banks
api_get_banks(p) ==
    /\ Arrive(p)
    /\ Set(p, [Request("api_get_banks", "GET", 0, NoBody) EXCEPT !.pc = "connect"])
    /\ UNCHANGED <<tableExists, banks, nextId, serving, session, follow, acked>>

api_get_banks_connect(p, ok) ==
    /\ At(p, "api_get_banks", "connect")
    /\ Set(p, IF ok THEN [Connected(proc[p]) EXCEPT !.pc = "select_all"]
              ELSE api_fail(proc[p]))
    /\ UNCHANGED <<tableExists, banks, nextId, serving, session, follow, acked>>

api_get_banks_select(p, ok) ==
    /\ At(p, "api_get_banks", "select_all")
    /\ IF StatementOk(ok)
       THEN \E banks_list \in SelectAllOrdered(banks) :
               Set(p, Respond([Closed(proc[p]) EXCEPT !.fetched = banks_list],
                              Json(200, TRUE, banks_list, "", Len(banks_list), "")))
       ELSE Set(p, api_fail(proc[p]))
    /\ UNCHANGED <<tableExists, banks, nextId, serving, session, follow, acked>>

\* ---- GET /api/banks/<id>
api_get_bank(p, bank_id) ==
    /\ Arrive(p)
    /\ Set(p, [Request("api_get_bank", "GET", bank_id, NoBody) EXCEPT !.pc = "connect"])
    /\ UNCHANGED <<tableExists, banks, nextId, serving, session, follow, acked>>

api_get_bank_connect(p, ok) ==
    /\ At(p, "api_get_bank", "connect")
    /\ Set(p, IF ok THEN [Connected(proc[p]) EXCEPT !.pc = "select_one"]
              ELSE api_fail(proc[p]))
    /\ UNCHANGED <<tableExists, banks, nextId, serving, session, follow, acked>>

api_get_bank_select(p, ok) ==
    /\ At(p, "api_get_bank", "select_one")
    /\ LET bank == SelectById(proc[p].bank_id)
           r == [Closed(proc[p]) EXCEPT !.fetched = bank]
       IN Set(p, IF ~StatementOk(ok) THEN api_fail(proc[p])
                 ELSE IF bank # <<>> THEN Respond(r, Json(200, TRUE, bank, "", -1, ""))
                 ELSE Respond(r, NotFound))
    /\ UNCHANGED <<tableExists, banks, nextId, serving, session, follow, acked>>

\* ---- POST /api/banks
\* The parsing and validation that precede the connection.
api_validate(r, nextpc) ==
    IF ~Truthy(r.body)
    THEN Respond(r, JsonError(400, "No data provided"))
    ELSE IF RaisesAttributeError(r.body)
    THEN api_fail([r EXCEPT !.raised = TRUE])
    ELSE IF ~Valid(Stripped(r))
    THEN Respond(Stripped(r), JsonError(400, "Name and location are required"))
    ELSE [Stripped(r) EXCEPT !.pc = nextpc]

api_create_bank(p, data) ==
    /\ Arrive(p)
    /\ LET r == api_validate(Request("api_create_bank", "POST", 0, data), "connect")
       IN /\ r.pc = "connect" => IdsLeft
          /\ Set(p, r)
    /\ UNCHANGED <<tableExists, banks, nextId, serving, session, follow, acked>>

api_create_bank_connect(p, ok) ==
    /\ At(p, "api_create_bank", "connect")
    /\ Set(p, IF ok THEN [Connected(proc[p]) EXCEPT !.pc = "insert"]
              ELSE api_fail(proc[p]))
    /\ UNCHANGED <<tableExists, banks, nextId, serving, session, follow, acked>>

InsertedWithSentId(r) ==
    LET i == IF r.body.id.t = "number" THEN r.body.id.s[1] ELSE nextId
    IN [r EXCEPT !.conn.pending = [op |-> "insert", id |-> i, name |-> r.name,
                                   location |-> r.location],
                 !.conn.identity = i,
                 !.rowcount = 1]
\* INSERT INTO banks (name, location) VALUES (?, ?): the backend assigns the
\* next identity value, which @@IDENTITY of this connection then reports.
Inserted(r) ==
    [r EXCEPT !.conn.pending = [op |-> "insert", id |-> nextId, name |-> r.name,
                                location |-> r.location],
              !.conn.identity = nextId,
              !.rowcount = 1]

api_create_bank_insert(p, ok) ==
    /\ At(p, "api_create_bank", "insert")
    /\ Set(p, IF StatementOk(ok) THEN [Inserted(proc[p]) EXCEPT !.pc = "commit"]
              ELSE api_fail(proc[p]))
    /\ nextId' = IF StatementOk(ok) THEN nextId + 1 ELSE nextId
    /\ UNCHANGED <<tableExists, banks, serving, session, follow, acked>>

api_create_bank_commit(p, ok) ==
    /\ At(p, "api_create_bank", "commit")
    /\ Set(p, IF ok THEN [proc[p] EXCEPT !.pc = "identity", !.conn.pending = NoWrite]
              ELSE api_fail(proc[p]))
    /\ banks' = IF ok THEN Committed(banks, proc[p].conn.pending) ELSE banks
    /\ UNCHANGED <<tableExists, nextId, serving, session, follow, acked>>

api_create_bank_identity_of_table(p, ok) ==
    /\ At(p, "api_create_bank", "identity")
    /\ LET new_id == nextId - 1
           r == [Closed(proc[p]) EXCEPT !.new_id = new_id]
       IN Set(p, IF ok
                 THEN Respond(r, Json(201, TRUE, <<Row(new_id, r.name, r.location)>>, "",
                                      -1, "Bank created successfully"))
                 ELSE api_fail(proc[p]))
    /\ UNCHANGED <<tableExists, banks, nextId, serving, session, follow, acked>>

\* SELECT @@IDENTITY AS id; new_id = cursor.fetchone()[0]
api_create_bank_identity(p, ok) ==
    /\ At(p, "api_create_bank", "identity")
    /\ LET new_id == proc[p].conn.identity
           r == [Closed(proc[p]) EXCEPT !.new_id = new_id]
       IN Set(p, IF ok
                 THEN Respond(r, Json(201, TRUE, <<Row(new_id, r.name, r.location)>>, "",
                                      -1, "Bank created successfully"))
                 ELSE api_fail(proc[p]))
    /\ UNCHANGED <<tableExists, banks, nextId, serving, session, follow, acked>>

\* ---- PUT /api/banks/<id>
api_update_bank(p, bank_id, data) ==
    /\ Arrive(p)
    /\ Set(p, api_validate(Request("api_update_bank", "PUT", bank_id, data), "connect"))
    /\ UNCHANGED <<tableExists, banks, nextId, serving, session, follow, acked>>

api_update_bank_connect(p, ok) ==
    /\ At(p, "api_update_bank", "connect")
    /\ Set(p, IF ok THEN [Connected(proc[p]) EXCEPT !.pc = "exists"]
              ELSE api_fail(proc[p]))
    /\ UNCHANGED <<tableExists, banks, nextId, serving, session, follow, acked>>

\* SELECT id FROM banks WHERE id = ?; if not cursor.fetchone(): return ... 404
api_update_bank_exists(p, ok) ==
    /\ At(p, "api_update_bank", "exists")
    /\ LET found == SelectById(proc[p].bank_id)
       IN Set(p, IF ~StatementOk(ok) THEN api_fail(proc[p])
                 ELSE IF found = <<>>
                 THEN Respond([Closed(proc[p]) EXCEPT !.fetched = found], NotFound)
                 ELSE [proc[p] EXCEPT !.pc = "update", !.fetched = found])
    /\ UNCHANGED <<tableExists, banks, nextId, serving, session, follow, acked>>

UpdatedSwapped(r) ==
    [r EXCEPT !.conn.pending = [op |-> "update", id |-> r.bank_id, name |-> r.location,
                                location |-> r.name],
              !.rowcount = Cardinality({b \in banks : b.id = r.bank_id})]
\* UPDATE banks SET name = ?, location = ? WHERE id = ?
Updated(r) ==
    [r EXCEPT !.conn.pending = [op |-> "update", id |-> r.bank_id, name |-> r.name,
                                location |-> r.location],
              !.rowcount = Cardinality({b \in banks : b.id = r.bank_id})]

api_update_bank_update(p, ok) ==
    /\ At(p, "api_update_bank", "update")
    /\ Unlocked(p, proc[p].bank_id)
    /\ Set(p, IF StatementOk(ok) THEN [Updated(proc[p]) EXCEPT !.pc = "commit"]
              ELSE api_fail(proc[p]))
    /\ UNCHANGED <<tableExists, banks, nextId, serving, session, follow, acked>>

api_update_bank_commit(p, ok) ==
    /\ At(p, "api_update_bank", "commit")
    /\ LET r == proc[p]
       IN Set(p, IF ok
                 THEN Respond(Closed(r),
                              Json(200, TRUE, <<Row(r.bank_id, r.name, r.location)>>, "",
                                   -1, "Bank updated successfully"))
                 ELSE api_fail(r))
    /\ banks' = IF ok THEN Committed(banks, proc[p].conn.pending) ELSE banks
    /\ UNCHANGED <<tableExists, nextId, serving, session, follow>>
    /\ acked' = IF ok THEN Forget(proc[p].conn.pending) ELSE acked

\* ---- DELETE /api/banks/<id>
api_delete_bank(p, bank_id) ==
    /\ Arrive(p)
    /\ Set(p, [Request("api_delete_bank", "DELETE", bank_id, NoBody) EXCEPT !.pc = "connect"])
    /\ UNCHANGED <<tableExists, banks, nextId, serving, session, follow, acked>>

api_delete_bank_connect(p, ok) ==
    /\ At(p, "api_delete_bank", "connect")
    /\ Set(p, IF ok THEN [Connected(proc[p]) EXCEPT !.pc = "exists"]
              ELSE api_fail(proc[p]))
    /\ UNCHANGED <<tableExists, banks, nextId, serving, session, follow, acked>>

api_delete_bank_unchecked(p, ok) ==
    /\ At(p, "api_delete_bank", "exists")
    /\ Set(p, IF ~StatementOk(ok) THEN api_fail(proc[p])
              ELSE [proc[p] EXCEPT !.pc = "delete"])
    /\ UNCHANGED <<tableExists, banks, nextId, serving, session, follow, acked>>

api_delete_bank_exists(p, ok) ==
    /\ At(p, "api_delete_bank", "exists")
    /\ LET found == SelectById(proc[p].bank_id)
       IN Set(p, IF ~StatementOk(ok) THEN api_fail(proc[p])
                 ELSE IF found = <<>>
                 THEN Respond([Closed(proc[p]) EXCEPT !.fetched = found], NotFound)
                 ELSE [proc[p] EXCEPT !.pc = "delete", !.fetched = found])
    /\ UNCHANGED <<tableExists, banks, nextId, serving, session, follow, acked>>

\* DELETE FROM banks WHERE id = ?
Deleted(r) ==
    [r EXCEPT !.conn.pending = [NoWrite EXCEPT !.op = "delete", !.id = r.bank_id],
              !.rowcount = Cardinality({b \in banks : b.id = r.bank_id})]

api_delete_bank_delete(p, ok) ==
    /\ At(p, "api_delete_bank", "delete")
    /\ Unlocked(p, proc[p].bank_id)
    /\ Set(p, IF StatementOk(ok) THEN [Deleted(proc[p]) EXCEPT !.pc = "commit"]
              ELSE api_fail(proc[p]))
    /\ UNCHANGED <<tableExists, banks, nextId, serving, session, follow, acked>>

api_delete_bank_commit(p, ok) ==
    /\ At(p, "api_delete_bank", "commit")
    /\ Set(p, IF ok
              THEN Respond(Closed(proc[p]),
                           Json(200, TRUE, <<>>, "", -1, "Bank deleted successfully"))
              ELSE api_fail(proc[p]))
    /\ banks' = IF ok THEN Committed(banks, proc[p].conn.pending) ELSE banks
    /\ UNCHANGED <<tableExists, nextId, serving, session, follow>>
    /\ acked' = IF ok THEN Forget(proc[p].conn.pending) ELSE acked

(***************************************************************************)
(* The web interface                                                       *)
(***************************************************************************)
Notice(message, detail, category) ==
    [message |-> message, detail |-> detail, category |-> category]
\* flash(message, category): the notice joins the session's pending ones.
Flash(notices, message, detail, category) ==
    Append(notices, Notice(message, detail, category))

\* The page shows the pending notices and takes them off the session.
Displayed(notices) == [shown |-> notices, left |-> <<>>]

\* render_template(template, ...): 200, the page with the notices pending
\* once the handler has flashed its own.
Render(r, template, data, notices) ==
    Respond(r, [NoResp EXCEPT !.status = 200, !.type = "html", !.target = template,
                              !.data = data, !.notices = Displayed(notices).shown])
\* redirect(url_for(endpoint, bank_id=...)): 302, no page, the notices stay.
Redirect(r, endpoint, bank_id) ==
    Respond(r, [NoResp EXCEPT !.status = 302, !.type = "redirect", !.target = endpoint,
                              !.id = bank_id])

\* ---- GET /
index(p) ==
    /\ ArriveAt(p, "index", 0)
    /\ Set(p, [Request("index", "GET", 0, NoBody) EXCEPT !.pc = "connect"])
    /\ follow' = NoFollow
    /\ UNCHANGED <<tableExists, banks, nextId, serving, session, acked>>

index_fail(r) ==
    Render(Closed(r), "index.html", <<>>,
           Flash(session, "Error fetching banks", ErrorText(r), "danger"))

index_connect(p, ok) ==
    /\ At(p, "index", "connect")
    /\ Set(p, IF ok THEN [Connected(proc[p]) EXCEPT !.pc = "select_all"]
              ELSE index_fail(proc[p]))
    /\ session' = IF ok THEN session ELSE <<>>
    /\ UNCHANGED <<tableExists, banks, nextId, serving, follow, acked>>

index_select(p, ok) ==
    /\ At(p, "index", "select_all")
    /\ IF StatementOk(ok)
       THEN \E rows \in SelectAllOrdered(banks) :
               Set(p, Render([Closed(proc[p]) EXCEPT !.fetched = rows], "index.html",
                             rows, session))
       ELSE Set(p, index_fail(proc[p]))
    /\ session' = <<>>
    /\ UNCHANGED <<tableExists, banks, nextId, serving, follow, acked>>

\* ---- GET /bank/<id>
view_bank(p, bank_id) ==
    /\ ArriveAt(p, "view_bank", bank_id)
    /\ Set(p, [Request("view_bank", "GET", bank_id, NoBody) EXCEPT !.pc = "connect"])
    /\ follow' = NoFollow
    /\ UNCHANGED <<tableExists, banks, nextId, serving, session, acked>>

view_bank_connect(p, ok) ==
    /\ At(p, "view_bank", "connect")
    /\ Set(p, IF ok THEN [Connected(proc[p]) EXCEPT !.pc = "select_one"]
              ELSE Redirect(proc[p], "index", 0))
    /\ session' = IF ok THEN session
                  ELSE Flash(session, "Error fetching bank", ErrorText(proc[p]), "danger")
    /\ UNCHANGED <<tableExists, banks, nextId, serving, follow, acked>>

view_bank_select(p, ok) ==
    /\ At(p, "view_bank", "select_one")
    /\ LET bank == SelectById(proc[p].bank_id)
           r == [Closed(proc[p]) EXCEPT !.fetched = bank]
       IN IF ~StatementOk(ok)
          THEN /\ Set(p, Redirect(Closed(proc[p]), "index", 0))
               /\ session' = Flash(session, "Error fetching bank", ErrorText(proc[p]),
                                   "danger")
          ELSE IF bank # <<>>
          THEN /\ Set(p, Render(r, "view_bank.html", bank, session))
               /\ session' = <<>>
          ELSE /\ Set(p, Redirect(r, "index", 0))
               /\ session' = Flash(session, "Bank not found", "", "warning")
    /\ UNCHANGED <<tableExists, banks, nextId, serving, follow, acked>>

\* ---- GET|POST /bank/new
create_bank(p, method, form) ==
    /\ Arrive(p)
    /\ LET r == Stripped(Request("create_bank", method, 0, form))
       IN IF method = "GET"
          THEN /\ Set(p, Render(Request("create_bank", method, 0, form),
                                "create_bank.html", <<>>, session))
               /\ session' = <<>>
          ELSE IF ~Valid(r)
          THEN /\ Set(p, Render(r, "create_bank.html", <<>>,
                                Flash(session, "Name and location are required", "",
                                      "warning")))
               /\ session' = <<>>
          ELSE /\ IdsLeft
               /\ Set(p, [r EXCEPT !.pc = "connect"])
               /\ session' = session
    /\ UNCHANGED <<tableExists, banks, nextId, serving, follow, acked>>

create_bank_fail(r) ==
    Render(Closed(r), "create_bank.html", <<>>,
           Flash(session, "Error creating bank", ErrorText(r), "danger"))

create_bank_connect(p, ok) ==
    /\ At(p, "create_bank", "connect")
    /\ Set(p, IF ok THEN [Connected(proc[p]) EXCEPT !.pc = "insert"]
              ELSE create_bank_fail(proc[p]))
    /\ session' = IF ok THEN session ELSE <<>>
    /\ UNCHANGED <<tableExists, banks, nextId, serving, follow, acked>>

create_bank_insert(p, ok) ==
    /\ At(p, "create_bank", "insert")
    /\ Set(p, IF StatementOk(ok) THEN [Inserted(proc[p]) EXCEPT !.pc = "commit"]
              ELSE create_bank_fail(proc[p]))
    /\ nextId' = IF StatementOk(ok) THEN nextId + 1 ELSE nextId
    /\ session' = IF StatementOk(ok) THEN session ELSE <<>>
    /\ UNCHANGED <<tableExists, banks, serving, follow, acked>>

create_bank_commit(p, ok) ==
    /\ At(p, "create_bank", "commit")
    /\ Set(p, IF ok THEN Redirect(Closed(proc[p]), "index", 0)
              ELSE create_bank_fail(proc[p]))
    /\ banks' = IF ok THEN Committed(banks, proc[p].conn.pending) ELSE banks
    /\ session' = IF ok
                  THEN Flash(session, "Bank created successfully!", "", "success")
                  ELSE <<>>
    /\ UNCHANGED <<tableExists, nextId, serving, follow, acked>>

\* ---- GET|POST /bank/<id>/edit
edit_bank(p, method, bank_id, form) ==
    /\ IF method = "GET" THEN ArriveAt(p, "edit_bank", bank_id) ELSE Arrive(p)
    /\ follow' = NoFollow
    /\ LET r == Stripped(Request("edit_bank", method, bank_id, form))
       IN IF method = "GET"
          THEN /\ Set(p, [Request("edit_bank", method, bank_id, form)
                            EXCEPT !.pc = "connect"])
               /\ session' = session
          ELSE IF ~Valid(r)
          THEN /\ Set(p, Redirect(r, "edit_bank", bank_id))
               /\ session' = Flash(session, "Name and location are required", "",
                                   "warning")
          ELSE /\ Set(p, [r EXCEPT !.pc = "post_connect"])
               /\ session' = session
    /\ UNCHANGED <<tableExists, banks, nextId, serving, acked>>

\* except Exception: flash the error, then go on to the GET part below.
edit_bank_fail(r) == [Closed(r) EXCEPT !.pc = "connect"]

edit_bank_post_connect(p, ok) ==
    /\ At(p, "edit_bank", "post_connect")
    /\ Set(p, IF ok THEN [Connected(proc[p]) EXCEPT !.pc = "update"]
              ELSE edit_bank_fail(proc[p]))
    /\ session' = IF ok THEN session
                  ELSE Flash(session, "Error updating bank", ErrorText(proc[p]), "danger")
    /\ UNCHANGED <<tableExists, banks, nextId, serving, follow, acked>>

edit_bank_update(p, ok) ==
    /\ At(p, "edit_bank", "update")
    /\ Unlocked(p, proc[p].bank_id)
    /\ Set(p, IF StatementOk(ok) THEN [Updated(proc[p]) EXCEPT !.pc = "commit"]
              ELSE edit_bank_fail(proc[p]))
    /\ session' = IF StatementOk(ok) THEN session
                  ELSE Flash(session, "Error updating bank", ErrorText(proc[p]), "danger")
    /\ UNCHANGED <<tableExists, banks, nextId, serving, follow, acked>>

edit_bank_commit(p, ok) ==
    /\ At(p, "edit_bank", "commit")
    /\ Set(p, IF ok THEN Redirect(Closed(proc[p]), "view_bank", proc[p].bank_id)
              ELSE edit_bank_fail(proc[p]))
    /\ banks' = IF ok THEN Committed(banks, proc[p].conn.pending) ELSE banks
    /\ session' = IF ok
                  THEN Flash(session, "Bank updated successfully!", "", "success")
                  ELSE Flash(session, "Error updating bank", ErrorText(proc[p]), "danger")
    /\ UNCHANGED <<tableExists, nextId, serving, follow>>
    /\ acked' = IF ok THEN Forget(proc[p].conn.pending) ELSE acked

\* GET request or error: fetch and display the current bank data.
edit_bank_connect(p, ok) ==
    /\ At(p, "edit_bank", "connect")
    /\ Set(p, IF ok THEN [Connected(proc[p]) EXCEPT !.pc = "select_one"]
              ELSE Redirect(proc[p], "index", 0))
    /\ session' = IF ok THEN session
                  ELSE Flash(session, "Error fetching bank", ErrorText(proc[p]), "danger")
    /\ UNCHANGED <<tableExists, banks, nextId, serving, follow, acked>>

edit_bank_select(p, ok) ==
    /\ At(p, "edit_bank", "select_one")
    /\ LET bank == SelectById(proc[p].bank_id)
           r == [Closed(proc[p]) EXCEPT !.fetched = bank]
       IN IF ~StatementOk(ok)
          THEN /\ Set(p, Redirect(Closed(proc[p]), "index", 0))
               /\ session' = Flash(session, "Error fetching bank", ErrorText(proc[p]),
                                   "danger")
          ELSE IF bank # <<>>
          THEN /\ Set(p, Render(r, "edit_bank.html", bank, session))
               /\ session' = <<>>
          ELSE /\ Set(p, Redirect(r, "index", 0))
               /\ session' = Flash(session, "Bank not found", "", "warning")
    /\ UNCHANGED <<tableExists, banks, nextId, serving, follow, acked>>

\* ---- POST /bank/<id>/delete
delete_bank(p, bank_id) ==
    /\ Arrive(p)
    /\ Set(p, [Request("delete_bank", "POST", bank_id, NoBody) EXCEPT !.pc = "connect"])
    /\ UNCHANGED <<tableExists, banks, nextId, serving, session, follow, acked>>

delete_bank_connect(p, ok) ==
    /\ At(p, "delete_bank", "connect")
    /\ Set(p, IF ok THEN [Connected(proc[p]) EXCEPT !.pc = "delete"]
              ELSE Redirect(proc[p], "index", 0))
    /\ session' = IF ok THEN session
                  ELSE Flash(session, "Error deleting bank", ErrorText(proc[p]), "danger")
    /\ UNCHANGED <<tableExists, banks, nextId, serving, follow, acked>>

delete_bank_delete(p, ok) ==
    /\ At(p, "delete_bank", "delete")
    /\ Unlocked(p, proc[p].bank_id)
    /\ Set(p, IF StatementOk(ok) THEN [Deleted(proc[p]) EXCEPT !.pc = "commit"]
              ELSE Redirect(Closed(proc[p]), "index", 0))
    /\ session' = IF StatementOk(ok) THEN session
                  ELSE Flash(session, "Error deleting bank", ErrorText(proc[p]), "danger")
    /\ UNCHANGED <<tableExists, banks, nextId, serving, follow, acked>>

delete_bank_commit(p, ok) ==
    /\ At(p, "delete_bank", "commit")
    /\ Set(p, Redirect(Closed(proc[p]), "index", 0))
    /\ banks' = IF ok THEN Committed(banks, proc[p].conn.pending) ELSE banks
    /\ session' = IF ok
                  THEN Flash(session, "Bank deleted successfully!", "", "success")
                  ELSE Flash(session, "Error deleting bank", ErrorText(proc[p]), "danger")
    /\ UNCHANGED <<tableExists, nextId, serving, follow>>
    /\ acked' = IF ok THEN Forget(proc[p].conn.pending) ELSE acked

WebSteps(p, ok) ==
    \/ index_connect(p, ok) \/ index_select(p, ok)
    \/ view_bank_connect(p, ok) \/ view_bank_select(p, ok)
    \/ create_bank_connect(p, ok) \/ create_bank_insert(p, ok) \/ create_bank_commit(p, ok)
    \/ edit_bank_post_connect(p, ok) \/ edit_bank_update(p, ok) \/ edit_bank_commit(p, ok)
    \/ edit_bank_connect(p, ok) \/ edit_bank_select(p, ok)
    \/ delete_bank_connect(p, ok) \/ delete_bank_delete(p, ok) \/ delete_bank_commit(p, ok)

(***************************************************************************)
(* The environment                                                         *)
(***************************************************************************)
\* The client of the API takes note of an acknowledged write.
Acknowledged(r) ==
    CASE r.handler = "api_create_bank" /\ r.resp.status = 201 ->
            Ack("created", r.resp.data[1].id, r.body)
      [] r.handler = "api_update_bank" /\ r.resp.status = 200 ->
            Ack("updated", r.bank_id, r.body)
      [] r.handler = "api_delete_bank" /\ r.resp.status = 200 ->
            Ack("deleted", r.bank_id, NoBody)
      [] OTHER -> acked

\* The response has been sent: the slot is free for the next request.
\* A browser that was answered with a redirect follows it next.
Return(p) ==
    /\ proc[p].pc = "done"
    /\ proc[p].handler # "init_database"
    /\ Set(p, Idle)
    /\ follow' = IF proc[p].resp.type = "redirect"
                 THEN Target(proc[p].resp.target, proc[p].resp.id)
                 ELSE follow
    /\ acked' = Acknowledged(proc[p])
    /\ UNCHANGED <<tableExists, banks, nextId, serving, session>>

\* The response has been sent to one of several clients of the API; what each
\* knows of the table is then no longer certain, and none of it is recorded.
Answered(p) ==
    /\ proc[p].pc = "done"
    /\ proc[p].handler \in {"api_get_banks", "api_get_bank", "api_create_bank",
                            "api_update_bank", "api_delete_bank"}
    /\ Set(p, Idle)
    /\ UNCHANGED <<tableExists, banks, nextId, serving, session, follow, acked>>

ApiSteps(p, ok) ==
    \/ api_get_banks_connect(p, ok) \/ api_get_banks_select(p, ok)
    \/ api_get_bank_connect(p, ok) \/ api_get_bank_select(p, ok)
    \/ api_create_bank_connect(p, ok) \/ api_create_bank_insert(p, ok)
    \/ api_create_bank_commit(p, ok) \/ api_create_bank_identity(p, ok)
    \/ api_update_bank_connect(p, ok) \/ api_update_bank_exists(p, ok)
    \/ api_update_bank_update(p, ok) \/ api_update_bank_commit(p, ok)
    \/ api_delete_bank_connect(p, ok) \/ api_delete_bank_exists(p, ok)
    \/ api_delete_bank_delete(p, ok) \/ api_delete_bank_commit(p, ok)

InitSteps(p, ok) ==
    \/ init_database(p) \/ init_database_connect(p, ok) \/ init_database_execute(p, ok)
    \/ init_database_commit(p, ok) \/ init_database_return(p)

\* One request at a time, every handler, every body.
Next ==
    \/ \E p \in SeqProcs :
        \/ \E ok \in BOOLEAN : InitSteps(p, ok) \/ ApiSteps(p, ok) \/ WebSteps(p, ok)
        \/ api_get_banks(p)
        \/ \E bank_id \in IdInputs : api_get_bank(p, bank_id)
        \/ \E data \in JsonBodies : api_create_bank(p, data)
        \/ \E bank_id \in IdInputs, data \in JsonBodies : api_update_bank(p, bank_id, data)
        \/ \E bank_id \in IdInputs : api_delete_bank(p, bank_id)
        \/ index(p)
        \/ \E bank_id \in IdInputs : view_bank(p, bank_id)
        \/ create_bank(p, "GET", NoBody)
        \/ \E form \in Forms : create_bank(p, "POST", form)
        \/ \E bank_id \in IdInputs : edit_bank(p, "GET", bank_id, NoBody)
        \/ \E bank_id \in IdInputs, form \in Forms : edit_bank(p, "POST", bank_id, form)
        \/ \E bank_id \in IdInputs : delete_bank(p, bank_id)
        \/ Return(p)

Spec == Init /\ [][Next]_vars

\* Concurrent requests to the JSON API with valid bodies.
NextConc ==
    \/ \E p \in Procs :
        \/ InitSteps(p, TRUE) \/ ApiSteps(p, TRUE)
        \/ api_get_banks(p)
        \/ \E bank_id \in IdInputs : api_get_bank(p, bank_id)
        \/ \E data \in ValidBodies : api_create_bank(p, data)
        \/ \E bank_id \in IdInputs, data \in ValidBodies : api_update_bank(p, bank_id, data)
        \/ \E bank_id \in IdInputs : api_delete_bank(p, bank_id)
        \/ Answered(p)

SpecConc == Init /\ [][NextConc]_vars

(***************************************************************************)
(* Properties of the model.                                                *)
(***************************************************************************)
ApiHandlers == {"api_get_banks", "api_get_bank", "api_create_bank",
                "api_update_bank", "api_delete_bank"}
Done(p, handler) == proc[p].pc = "done" /\ proc[p].handler = handler
\* The request met no backend fault.
Healthy(r) == r.resp.error # DbError

\* t is s without its leading and trailing blanks, said without Strip.
IsTrimOf(t, s) ==
    /\ t # <<>> => (t[1] # SP /\ t[Len(t)] # SP)
    /\ \E i \in 0..Len(s) :
          /\ i + Len(t) <= Len(s)
          /\ \A k \in 1..Len(s) :
                IF k > i /\ k <= i + Len(t) THEN s[k] = t[k - i] ELSE s[k] = SP
\* A field that is missing, empty or whitespace-only; one that is a string with text.
Blank(f) == f.t = "missing" \/ (f.t = "string" /\ \A k \in 1..Len(f.s) : f.s[k] = SP)
HasText(f) == f.t = "string" /\ \E k \in 1..Len(f.s) : f.s[k] # SP
ValidBody(b) == b.shape = "object" /\ HasText(b.name) /\ HasText(b.location)
\* The record a response carries for (id, name as sent, location as sent).
IsRecordOf(data, bank_id, name, location) ==
    /\ Len(data) = 1
    /\ data[1].id = bank_id
    /\ IsTrimOf(data[1].name, name)
    /\ IsTrimOf(data[1].location, location)

\* The connection of each request: opened at most once more than closed, open
\* exactly while a statement may run, closed when the request is over, and its own.
C1_Scoped ==
    \A p \in Procs :
        LET r == proc[p]
        IN /\ r.closed <= r.opened /\ r.opened <= r.closed + 1
           /\ (r.conn.state = "open") <=> (r.opened = r.closed + 1)
           /\ r.pc = "done" => (r.conn.state # "open" /\ r.closed = r.opened)
           /\ r.pc = "idle" => (r.conn = NoConn /\ r.opened = 0)
           /\ r.pc \in {"create_table", "select_all", "select_one", "exists", "insert",
                        "update", "delete", "commit", "identity"}
                 => r.conn.state = "open"
           /\ \A q \in Procs \ {p} :
                 (r.conn.state = "open" /\ proc[q].conn.state = "open")
                     => r.conn.h # proc[q].conn.h
\* The step of p was a connect that failed: it went on without a connection.
C1_OpenFailed(p) ==
    /\ proc[p].pc \in {"connect", "post_connect"}
    /\ proc'[p] # proc[p]
    /\ proc'[p].opened = proc[p].opened
C1_FaultReported(r, notices) ==
    CASE r.handler = "init_database" -> r.pc = "done" /\ r.raised
      [] r.handler \in ApiHandlers ->
            r.pc = "done" /\ r.resp.status = 500 /\ r.resp.error = DbError
      [] OTHER -> \E k \in DOMAIN notices : notices[k].detail = DbError
\* C1: a connection that was opened is closed exactly once before the handler
\* returns, on every exit path; a failed open attempts no close and the fault
\* reaches the caller; no connection stays open after its request, and none is
\* held by two requests.
C1_ConnectionReleasedOnce ==
    /\ []C1_Scoped
    /\ [][\A p \in Procs :
            C1_OpenFailed(p) =>
                /\ proc'[p].closed = proc[p].closed
                /\ proc'[p].conn.state # "open"
                /\ C1_FaultReported(proc'[p], proc'[p].resp.notices \o session')]_vars
\* The 404 return from inside the connection scope, its connection closed once.
C1_Witness ==
    \E p \in Procs :
        /\ Done(p, "api_update_bank")
        /\ proc[p].resp.status = 404
        /\ proc[p].opened = 1 /\ proc[p].closed = 1

\* C2: a POST /api/banks with name and location non-empty after trimming is
\* answered 201 with a positive integer id N and the trimmed fields, and a
\* following GET /api/banks/N, with no update or delete of N in between,
\* returns 200 with exactly {id: N, name: trimmed name, location: trimmed
\* location}.
C2_CreateThenGet ==
    \A p \in Procs :
        LET r == proc[p]
        IN /\ (Done(p, "api_create_bank") /\ ValidBody(r.body) /\ Healthy(r))
                 => /\ r.resp.status = 201 /\ r.resp.success
                    /\ r.resp.data[1].id \in Nat \ {0}
                    /\ IsRecordOf(r.resp.data, r.resp.data[1].id, r.body.name.s,
                                  r.body.location.s)
           /\ (Done(p, "api_get_bank") /\ Healthy(r)
               /\ acked.op = "created" /\ acked.id = r.bank_id)
                 => /\ r.resp.status = 200 /\ r.resp.success
                    /\ IsRecordOf(r.resp.data, acked.id, acked.name, acked.location)
\* The GET of a bank created from a name with blanks around it.
C2_Witness ==
    \E p \in Procs :
        /\ Done(p, "api_get_bank")
        /\ acked.op = "created" /\ acked.id = proc[p].bank_id
        /\ acked.name = <<SP, "b", SP>>
        /\ proc[p].resp.status = 200

\* An id the table never issued, or one whose DELETE was acknowledged.
C3_Absent(bank_id) ==
    \/ bank_id >= nextId
    \/ acked.op = "deleted" /\ acked.id = bank_id
\* C3: GET, PUT with a valid body, and DELETE on an id that was never
\* created, or that was already deleted, return 404 with error "Bank not
\* found", never 500; so do the GET and the second DELETE that follow a
\* DELETE of the id.
C3_NotFoundOnAbsent ==
    \A p \in Procs :
        LET r == proc[p]
        IN /\ (Done(p, "api_get_bank") /\ Healthy(r)
               /\ (C3_Absent(r.bank_id) \/ r.bank_id \notin RowIds(banks)))
                 => r.resp = JsonError(404, "Bank not found")
           /\ (Done(p, "api_update_bank") /\ Healthy(r) /\ ValidBody(r.body)
               /\ (C3_Absent(r.bank_id) \/ r.bank_id \notin RowIds(banks)))
                 => r.resp = JsonError(404, "Bank not found")
           /\ (Done(p, "api_delete_bank") /\ Healthy(r) /\ C3_Absent(r.bank_id))
                 => r.resp = JsonError(404, "Bank not found")
\* The second DELETE of an id whose first DELETE was acknowledged.
C3_Witness ==
    \E p \in Procs :
        /\ Done(p, "api_delete_bank")
        /\ acked.op = "deleted" /\ acked.id = proc[p].bank_id
        /\ proc[p].resp.status = 404

\* The answers of the PUT and of the GET that follows it.
C4_Answers ==
    \A p \in Procs :
        LET r == proc[p]
        IN /\ (Done(p, "api_update_bank") /\ Healthy(r) /\ ValidBody(r.body)
               /\ r.bank_id \in RowIds(banks))
                 => /\ r.resp.status = 200 /\ r.resp.success
                    /\ IsRecordOf(r.resp.data, r.bank_id, r.body.name.s, r.body.location.s)
           /\ (Done(p, "api_get_bank") /\ Healthy(r)
               /\ acked.op = "updated" /\ acked.id = r.bank_id)
                 => /\ r.resp.status = 200 /\ r.resp.success
                    /\ IsRecordOf(r.resp.data, acked.id, acked.name, acked.location)
\* C4: for an existing id and name and location non-empty after trimming,
\* PUT /api/banks/id returns 200, and a following GET of the id, with no
\* other write to it in between, returns exactly (id, trimmed name, trimmed
\* location); the row keeps its id and no other row is created.
C4_UpdateThenGet ==
    /\ []C4_Answers
    /\ [][\A p \in Procs :
            (At(p, "api_update_bank", "commit") /\ proc'[p] # proc[p])
                => /\ RowIds(banks') = RowIds(banks)
                   /\ Cardinality(banks') = Cardinality(banks)
                   /\ \A b \in banks : b.id # proc[p].bank_id => b \in banks']_vars
\* The GET of a bank updated to a name with blanks around it.
C4_Witness ==
    \E p \in Procs :
        /\ Done(p, "api_get_bank")
        /\ acked.op = "updated" /\ acked.id = proc[p].bank_id
        /\ acked.name = <<SP, "b", SP>>
        /\ proc[p].resp.status = 200
        /\ Cardinality(banks) = 2

\* The rejection of a create request: 400, or the form again with a notice.
C5_Rejected(r) ==
    IF r.handler = "api_create_bank"
    THEN r.resp.status = 400 /\ ~r.resp.success
    ELSE /\ r.resp.type = "html" /\ r.resp.target = "create_bank.html"
         /\ r.resp.notices # <<>>
\* C5: a create request (web POST /bank/new or POST /api/banks) whose name
\* or location is missing, empty or whitespace-only is rejected (the form
\* rendered again with a notice, or 400), inserts no row and opens no
\* database connection.
C5_CreateRejectsBlank ==
    \A p \in Procs :
        LET r == proc[p]
        IN (/\ r.pc = "done"
            /\ r.handler \in {"create_bank", "api_create_bank"} /\ r.method = "POST"
            /\ r.body.shape \in {"object", "form"}
            /\ (Blank(r.body.name) \/ Blank(r.body.location)))
              => (C5_Rejected(r) /\ r.opened = 0 /\ r.rowcount = -1)
\* The API answers 500, not 400, to a body without name whose location is a number.
C5_Witness ==
    \E p \in Procs :
        /\ Done(p, "api_create_bank")
        /\ Blank(proc[p].body.name) /\ proc[p].body.location = NonString
        /\ proc[p].resp.status = 500 /\ proc[p].resp.error = AttributeError
        /\ proc[p].opened = 0
\* What does hold: the rejection of every form, and of every JSON object or
\* null whose fields, where present, are strings.
StringFields(b) ==
    b.shape # "array" /\ b.name.t # "number" /\ b.location.t # "number"
C5_RejectsBlankStrings ==
    \A p \in Procs :
        LET r == proc[p]
        IN (/\ r.pc = "done"
            /\ r.handler \in {"create_bank", "api_create_bank"} /\ r.method = "POST"
            /\ StringFields(r.body)
            /\ (Blank(r.body.name) \/ Blank(r.body.location)))
              => (C5_Rejected(r) /\ r.opened = 0 /\ r.rowcount = -1)

\* C6: GET /api/banks returns 200 with exactly the rows of the table, in
\* ascending order of name whatever the insertion order, and count equal to
\* their number; for an empty table an empty list and count 0.
C6_ListSortedComplete ==
    \A p \in Procs :
        LET r == proc[p]
        IN (Done(p, "api_get_banks") /\ Healthy(r))
              => /\ r.resp.status = 200 /\ r.resp.success
                 /\ r.resp.count = Cardinality(banks)
                 /\ Len(r.resp.data) = r.resp.count
                 /\ {r.resp.data[k] : k \in DOMAIN r.resp.data} = banks
                 /\ \A i, j \in DOMAIN r.resp.data :
                       i < j => StrLeq(r.resp.data[i].name, r.resp.data[j].name)
\* Two banks listed against their insertion order.
C6_Witness ==
    \E p \in Procs :
        /\ Done(p, "api_get_banks")
        /\ Len(proc[p].resp.data) = 2
        /\ proc[p].resp.data[1].id > proc[p].resp.data[2].id
        /\ proc[p].resp.data[1].name # proc[p].resp.data[2].name

\* C7: for every JSON body sent to POST /api/banks, with the database
\* healthy: 400 with success false if name or location is missing or empty
\* after trimming, and otherwise 201 with the created record and its id;
\* never another status.
C7_CreateStatusByBody ==
    \A p \in Procs :
        LET r == proc[p]
        IN (Done(p, "api_create_bank") /\ Healthy(r))
              => IF Blank(r.body.name) \/ Blank(r.body.location)
                 THEN r.resp.status = 400 /\ ~r.resp.success
                 ELSE r.resp.status = 201 /\ r.resp.success /\ Len(r.resp.data) = 1
\* A body whose name is a number, with a valid location, is answered 500.
C7_Witness ==
    \E p \in Procs :
        /\ Done(p, "api_create_bank")
        /\ proc[p].body.name = NonString /\ HasText(proc[p].body.location)
        /\ proc[p].resp.status = 500 /\ proc[p].resp.error = AttributeError
\* What does hold: the two statuses for bodies whose fields, where present,
\* are strings.
C7_StatusByStringBody ==
    \A p \in Procs :
        LET r == proc[p]
        IN (Done(p, "api_create_bank") /\ Healthy(r) /\ StringFields(r.body))
              => IF Blank(r.body.name) \/ Blank(r.body.location)
                 THEN r.resp.status = 400 /\ ~r.resp.success
                 ELSE r.resp.status = 201 /\ r.resp.success /\ Len(r.resp.data) = 1

\* C8: PUT /api/banks/id returns 400 when name or location is missing or
\* empty after trimming, whether or not the id exists; 404 "Bank not found"
\* when the body is valid and the id absent; 200 with the updated record
\* otherwise; in the 400 and 404 cases no statement writes the table.
C8_UpdateStatusByBody ==
    \A p \in Procs :
        LET r == proc[p]
        IN (Done(p, "api_update_bank") /\ Healthy(r))
              => IF Blank(r.body.name) \/ Blank(r.body.location)
                 THEN r.resp.status = 400 /\ r.rowcount = -1
                 ELSE IF r.bank_id \notin RowIds(banks)
                 THEN r.resp = JsonError(404, "Bank not found") /\ r.rowcount = -1
                 ELSE r.resp.status = 200 /\ Len(r.resp.data) = 1
\* A PUT on an existing id whose location is a number is answered 500.
C8_Witness ==
    \E p \in Procs :
        /\ Done(p, "api_update_bank")
        /\ HasText(proc[p].body.name) /\ proc[p].body.location = NonString
        /\ proc[p].bank_id \in RowIds(banks)
        /\ proc[p].resp.status = 500 /\ proc[p].resp.error = AttributeError
\* What does hold: the three statuses for bodies whose fields, where present,
\* are strings.
C8_StatusByStringBody ==
    \A p \in Procs :
        LET r == proc[p]
        IN (Done(p, "api_update_bank") /\ Healthy(r) /\ StringFields(r.body))
              => IF Blank(r.body.name) \/ Blank(r.body.location)
                 THEN r.resp.status = 400 /\ r.rowcount = -1
                 ELSE IF r.bank_id \notin RowIds(banks)
                 THEN r.resp = JsonError(404, "Bank not found") /\ r.rowcount = -1
                 ELSE r.resp.status = 200 /\ Len(r.resp.data) = 1

\* C9: at every API endpoint a backend fault (the connection cannot be
\* opened, or a statement or a commit fails) is answered 500 with success
\* false and an error string; it never escapes the handler and never gives a
\* 2xx or 4xx response.
C9_FaultsAnswered500 ==
    [][\A p \in Procs :
          ApiSteps(p, FALSE) =>
              /\ proc'[p].pc = "done"
              /\ proc'[p].resp.type = "json"
              /\ proc'[p].resp.status = 500
              /\ ~proc'[p].resp.success
              /\ proc'[p].resp.error # ""]_vars
\* A commit that failed after the connection was opened, answered 500.
C9_Witness ==
    \E p \in Procs :
        /\ Done(p, "api_delete_bank")
        /\ proc[p].rowcount = 1
        /\ proc[p].resp.status = 500 /\ proc[p].resp.error = DbError
        /\ proc[p].bank_id \in RowIds(banks)

\* C10: on the web interface an edit POST with valid fields, or a delete
\* POST, that targets an id which does not exist never flashes a success
\* notice when no row was updated or removed.
C10_NoSuccessWithoutRow ==
    \A p \in Procs :
        LET r == proc[p]
        IN (/\ r.pc = "done"
            /\ r.handler \in {"edit_bank", "delete_bank"} /\ r.method = "POST"
            /\ r.rowcount = 0)
              => \A k \in DOMAIN session : session[k].category # "success"
\* A delete POST that removed no row, its success notice pending.
C10_Witness ==
    \E p \in Procs :
        /\ Done(p, "delete_bank")
        /\ proc[p].rowcount = 0
        /\ proc[p].bank_id >= nextId
        /\ session # <<>>
        /\ session[Len(session)] = Notice("Bank deleted successfully!", "", "success")
\* An edit POST that updated no row, its success notice pending.
C10_EditWitness ==
    \E p \in Procs :
        /\ Done(p, "edit_bank") /\ proc[p].method = "POST"
        /\ proc[p].rowcount = 0
        /\ session # <<>>
        /\ session[Len(session)] = Notice("Bank updated successfully!", "", "success")

\* The notice flashed last in the session is of the given category.
LastNoticeIs(category) ==
    session # <<>> /\ session[Len(session)].category = category
\* The edit POST failed: its fields were rejected or a database step raised.
C11_Failed(r) ==
    \/ ~Valid(r)
    \/ \E k \in DOMAIN (r.resp.notices \o session) :
          (r.resp.notices \o session)[k].message \in
              {"Error updating bank", "Error fetching bank"}
\* C11: a web edit POST with valid fields and a successful update is answered
\* with a redirect to the detail view of the same id, a success notice
\* pending; on every failure (of validation or of the database) it is
\* answered with a redirect back to the edit form of the same id, a notice
\* pending.
C11_EditRedirects ==
    \A p \in Procs :
        LET r == proc[p]
        IN (r.pc = "done" /\ r.handler = "edit_bank" /\ r.method = "POST")
              => /\ r.resp.type = "redirect" /\ r.resp.id = r.bank_id
                 /\ session # <<>>
                 /\ IF C11_Failed(r)
                    THEN r.resp.target = "edit_bank"
                    ELSE r.resp.target = "view_bank" /\ LastNoticeIs("success")
\* A failed UPDATE answered with the edit page itself, 200 and no redirect.
C11_Witness ==
    \E p \in Procs :
        /\ proc[p].pc = "done" /\ proc[p].handler = "edit_bank" /\ proc[p].method = "POST"
        /\ proc[p].opened = 2 /\ proc[p].closed = 2
        /\ proc[p].resp.status = 200 /\ proc[p].resp.target = "edit_bank.html"
        /\ \E k \in DOMAIN proc[p].resp.notices :
              proc[p].resp.notices[k].message = "Error updating bank"
\* A failure while the database stays down, answered with a redirect to the list.
C11_IndexWitness ==
    \E p \in Procs :
        /\ proc[p].pc = "done" /\ proc[p].handler = "edit_bank" /\ proc[p].method = "POST"
        /\ proc[p].opened = 0
        /\ proc[p].resp.type = "redirect" /\ proc[p].resp.target = "index"
        /\ Len(session) >= 2
\* What does hold: the redirect of a successful update and of rejected fields.
C11_RedirectsWithoutFault ==
    \A p \in Procs :
        LET r == proc[p]
        IN (/\ r.pc = "done" /\ r.handler = "edit_bank" /\ r.method = "POST"
            /\ \A k \in DOMAIN (r.resp.notices \o session) :
                  (r.resp.notices \o session)[k].detail # DbError)
              => /\ r.resp.type = "redirect" /\ r.resp.id = r.bank_id
                 /\ IF Valid(r)
                    THEN r.resp.target = "view_bank" /\ LastNoticeIs("success")
                    ELSE r.resp.target = "edit_bank" /\ LastNoticeIs("warning")

\* C12: the notice channel of the session holds at most one pending notice
\* at any time (no web request enqueues more than one), and a notice set
\* before a redirect is shown on the next rendered page, once, and is on no
\* later page.
C12_AtMostOnePending ==
    /\ Len(session) <= 1
    /\ \A p \in Procs : Len(proc[p].resp.notices) <= 1
\* One edit POST, the database down throughout, has enqueued two notices.
C12_Witness ==
    \E p \in Procs :
        /\ proc[p].pc = "done" /\ proc[p].handler = "edit_bank" /\ proc[p].method = "POST"
        /\ proc[p].opened = 0
        /\ Len(session) = 2
        /\ session[1].message = "Error updating bank"
        /\ session[2].message = "Error fetching bank"
\* Two notices pending with no database fault: the fields of an edit POST to
\* an absent id were rejected, and the edit form it was sent back to was not found.
C12_ChainWitness ==
    \E p \in Procs :
        /\ proc[p].pc = "done" /\ proc[p].handler = "edit_bank" /\ proc[p].method = "GET"
        /\ Len(session) = 2
        /\ session[1].message = "Name and location are required"
        /\ session[2].message = "Bank not found"
\* What does hold: a rendered page shows every pending notice, in order, and
\* leaves none pending.
C12_ShownOnceThenGone ==
    [][\A p \in Procs :
          (proc[p].pc # "done" /\ proc'[p].pc = "done" /\ proc'[p].resp.type = "html")
              => /\ session' = <<>>
                 /\ Len(proc'[p].resp.notices) >= Len(session)
                 /\ \A k \in DOMAIN session : proc'[p].resp.notices[k] = session[k]]_vars

\* The response of a request reports a backend fault: 500 from the API, an
\* error notice on the web.
C13_ReportsFault(r, notices) ==
    IF r.handler \in ApiHandlers
    THEN r.resp.status = 500 /\ r.resp.error = DbError
    ELSE \E k \in DOMAIN notices : notices[k].detail = DbError
\* The step ends the request of p with a backend fault reported.
C13_EndsInFault(p) ==
    /\ proc[p].pc \notin {"idle", "done"} /\ proc'[p].pc = "done"
    /\ proc[p].handler # "init_database"
    /\ C13_ReportsFault(proc'[p], proc'[p].resp.notices \o session')
\* The row the INSERT of this request was given is in the table.
C13_OwnRowCommitted(r, rows) ==
    /\ r.rowcount = 1 /\ r.conn.identity > 0
    /\ Row(r.conn.identity, r.name, r.location) \in rows
\* C13: a request that ends in a backend fault (500 or an error notice)
\* leaves the table as it was before the request; no write is committed by a
\* request that reports failure, and in particular a fault of the identity
\* query of POST /api/banks leaves no inserted row behind its 500.
C13_NoCommittedFailure ==
    [][\A p \in Procs :
          C13_EndsInFault(p) =>
              /\ banks' = banks
              /\ ~C13_OwnRowCommitted(proc[p], banks)]_vars
\* POST /api/banks answered 500 with the row it inserted in the table.
C13_Witness ==
    \E p \in Procs :
        /\ Done(p, "api_create_bank")
        /\ proc[p].resp.status = 500 /\ proc[p].resp.error = DbError
        /\ proc[p].rowcount = 1
        /\ Row(nextId - 1, proc[p].name, proc[p].location) \in banks
\* What does hold: the table changes only in a commit that succeeds, and of
\* the requests that commit only POST /api/banks may still report a fault.
C13_CommitThenSuccess ==
    [][banks' # banks =>
          \E p \in Procs :
              /\ proc[p].pc = "commit" /\ proc'[p] # proc[p]
              /\ IF proc[p].handler = "api_create_bank"
                 THEN proc'[p].pc = "identity"
                 ELSE /\ proc'[p].pc = "done"
                      /\ ~C13_ReportsFault(proc'[p], <<session'[Len(session')]>>)]_vars

\* The id a create holds: that of its INSERT while it runs, and the one its
\* 201 reports once it has answered.
C14_IdOf(r) ==
    IF r.handler # "api_create_bank" THEN 0
    ELSE IF r.pc \in {"commit", "identity"} THEN r.conn.identity
    ELSE IF r.pc = "done" /\ r.resp.status = 201 THEN r.resp.data[1].id
    ELSE 0
C14_DistinctIds ==
    \A p \in Procs : \A q \in Procs \ {p} :
        C14_IdOf(proc[p]) > 0 => C14_IdOf(proc[p]) # C14_IdOf(proc[q])
\* C14: under any interleaving of concurrent POST /api/banks requests, each
\* 201 carries the id of the row this same request inserted, that row holding
\* the request's name and location, and two concurrent creates never report
\* the same id.
C14_OwnIdReported ==
    /\ []C14_DistinctIds
    /\ [][\A p \in Procs :
            /\ (At(p, "api_create_bank", "commit") /\ proc'[p].pc = "identity")
                  => /\ proc[p].conn.identity \notin RowIds(banks)
                     /\ banks' = banks \cup {Row(proc[p].conn.identity, proc[p].name,
                                                 proc[p].location)}
                     /\ proc'[p].conn.identity = proc[p].conn.identity
            /\ (At(p, "api_create_bank", "identity") /\ proc'[p].pc = "done"
                /\ proc'[p].resp.status = 201)
                  => proc'[p].resp.data =
                        <<Row(proc[p].conn.identity, proc[p].name, proc[p].location)>>]_vars
\* Two concurrent creates, each answered 201 with its own id and its own name.
C14_Witness ==
    \E p \in Procs : \E q \in Procs \ {p} :
        /\ Done(p, "api_create_bank") /\ proc[p].resp.status = 201
        /\ Done(q, "api_create_bank") /\ proc[q].resp.status = 201
        /\ proc[p].resp.data[1].id # proc[q].resp.data[1].id
        /\ proc[p].resp.data[1].id < nextId - 1
        /\ proc[p].resp.data[1].name # proc[q].resp.data[1].name

\* C15: under any interleaving of a PUT /api/banks/id with a concurrent
\* DELETE of the same id, a 200 answer to the PUT implies that its UPDATE
\* matched a row; a PUT whose row was removed between its existence check and
\* its UPDATE reports not found.
C15_OkMeansMatched ==
    \A p \in Procs :
        LET r == proc[p]
        IN Done(p, "api_update_bank")
              => /\ r.resp.status = 200 => r.rowcount = 1
                 /\ r.rowcount = 0 => r.resp = JsonError(404, "Bank not found")
\* A PUT answered 200 whose UPDATE matched no row: the row was deleted after
\* the existence check found it.
C15_Witness ==
    \E p \in Procs :
        /\ Done(p, "api_update_bank")
        /\ proc[p].resp.status = 200 /\ proc[p].resp.success
        /\ proc[p].fetched # <<>>
        /\ proc[p].rowcount = 0
        /\ proc[p].bank_id \notin RowIds(banks)

\* Two requests update the same id, the existence check of each passed.
C16_BothUpdate(p, q) ==
    /\ p # q
    /\ proc[p].handler = "api_update_bank" /\ proc[q].handler = "api_update_bank"
    /\ proc[p].bank_id = proc[q].bank_id
    /\ proc[p].fetched # <<>> /\ proc[q].fetched # <<>>
\* Both succeed, and every row holds the name and location of one request.
C16_BothSucceed ==
    /\ \A p, q \in Procs :
          (C16_BothUpdate(p, q) /\ proc[p].pc = "done")
              => /\ proc[p].resp.status = 200 /\ proc[p].rowcount = 1
                 /\ proc[p].bank_id \in RowIds(banks)
                 /\ proc[p].resp.data = <<Row(proc[p].bank_id, proc[p].name, proc[p].location)>>
    /\ \A b \in banks :
          \E d \in ValidBodies :
              IsTrimOf(b.name, d.name.s) /\ IsTrimOf(b.location, d.location.s)
\* C16: two concurrent valid updates of the same existing id both succeed,
\* and the stored row afterwards is the full (name, location) of the update
\* that committed last, never the name of one with the location of the
\* other, under the same id.
C16_LastWriterWins ==
    /\ []C16_BothSucceed
    /\ [][\A p \in Procs :
            (At(p, "api_update_bank", "commit") /\ proc'[p].pc = "done"
             /\ proc'[p].resp.status = 200 /\ proc[p].rowcount = 1)
                => /\ Row(proc[p].bank_id, proc[p].name, proc[p].location) \in banks'
                   /\ RowIds(banks') = RowIds(banks)
                   /\ Cardinality(banks') = Cardinality(banks)
                   /\ \A b \in banks : b.id # proc[p].bank_id => b \in banks']_vars
\* Two updates of one id with different values in flight together: one has
\* run its UPDATE and not committed, the other waits for the row.
C16_Witness ==
    \E p \in Procs : \E q \in Procs \ {p} :
        /\ C16_BothUpdate(p, q)
        /\ proc[p].pc = "commit" /\ proc[p].rowcount = 1
        /\ proc[q].pc = "update" /\ ~Unlocked(q, proc[q].bank_id)
        /\ proc[p].name # proc[q].name /\ proc[p].location # proc[q].location
\* Both answered 200, the row holding the values of one of them.
C16_BothAnswered ==
    \E p \in Procs : \E q \in Procs \ {p} :
        /\ C16_BothUpdate(p, q)
        /\ proc[p].pc = "done" /\ proc[q].pc = "done"
        /\ proc[p].resp.status = 200 /\ proc[q].resp.status = 200
        /\ proc[p].name # proc[q].name /\ proc[p].location # proc[q].location
        /\ Row(proc[p].bank_id, proc[p].name, proc[p].location) \in banks

\* The ids of the rows, and of the inserts not yet committed, are distinct
\* positive integers the identity counter has issued; the id of a row whose
\* DELETE was acknowledged is in the table no more.
C17_IdsIssuedOnce ==
    /\ Cardinality(RowIds(banks)) = Cardinality(banks)
    /\ RowIds(banks) \subseteq 1..(nextId - 1)
    /\ \A p \in Procs :
          proc[p].conn.pending.op = "insert"
              => /\ proc[p].conn.pending.id \in 1..(nextId - 1)
                 /\ proc[p].conn.pending.id \notin RowIds(banks)
                 /\ \A q \in Procs \ {p} :
                       proc[q].conn.pending.op = "insert"
                           => proc[q].conn.pending.id # proc[p].conn.pending.id
    /\ acked.op = "deleted" => (acked.id \notin RowIds(banks) /\ acked.id < nextId)
\* C17: in every reachable state the ids of the rows are pairwise distinct
\* positive integers assigned by the backend: a create takes no id from the
\* request (an "id" in the body is ignored), no update changes the id of a
\* row, and the id of a deleted row is never given to a later row.
C17_BackendAssignsIds ==
    /\ []C17_IdsIssuedOnce
    /\ [][/\ nextId' >= nextId
          /\ \A i \in RowIds(banks') \ RowIds(banks) : i < nextId
          /\ \A p \in Procs :
                /\ (proc[p].pc = "insert" /\ proc'[p].pc = "commit")
                      => /\ proc'[p].conn.pending.id = nextId
                         /\ nextId' = nextId + 1
                /\ (proc[p].pc = "commit" /\ proc[p].conn.pending.op = "insert"
                    /\ proc'[p] # proc[p] /\ banks' # banks)
                      => /\ RowIds(banks') = RowIds(banks) \cup {proc[p].conn.pending.id}
                         /\ banks \subseteq banks'
                /\ (proc[p].pc = "commit" /\ proc[p].conn.pending.op = "update"
                    /\ proc'[p] # proc[p])
                      => RowIds(banks') = RowIds(banks)]_vars
\* A create that sent "id": 1 while bank 1 existed, answered 201 with the
\* id of the backend.
C17_Witness ==
    \E p \in Procs :
        /\ Done(p, "api_create_bank")
        /\ proc[p].body.id = Num(1)
        /\ proc[p].resp.status = 201
        /\ proc[p].resp.data[1].id = 2
        /\ 1 \in RowIds(banks)
\* The DELETE of bank 1 acknowledged, bank 2 in the table, the counter past both.
C17_NoReuseWitness ==
    /\ acked.op = "deleted" /\ acked.id = 1
    /\ 2 \in RowIds(banks)
    /\ nextId = 3

\* The application serves only over a table that exists; one that aborted
\* its start has no table and handles no request.
C18_ServesOverTable ==
    /\ serving = "up" => tableExists
    /\ serving = "aborted" => (~tableExists /\ \A p \in Procs : proc[p] = Idle)
    /\ \A p \in Procs :
          (proc[p].handler = "init_database" /\ proc[p].pc = "done" /\ ~proc[p].raised)
              => tableExists
\* The step is one of init_database, called by p.
C18_InitStep(p) ==
    /\ proc[p].handler = "init_database" \/ proc'[p].handler = "init_database"
    /\ proc'[p] # proc[p]
\* C18: init_database is idempotent: it creates the table when absent, and
\* called over an existing table, any number of times and at any point, it
\* leaves the table and its rows unchanged; when the creation fails the fault
\* is re-raised and the application does not start serving.
C18_InitIdempotent ==
    /\ []C18_ServesOverTable
    /\ [][\A p \in Procs :
            /\ C18_InitStep(p)
                  => /\ banks' = banks /\ nextId' = nextId
                     /\ tableExists => tableExists'
            /\ (init_database_connect(p, FALSE) \/ init_database_execute(p, FALSE)
                \/ init_database_commit(p, FALSE))
                  => /\ proc'[p].pc = "done" /\ proc'[p].raised
                     /\ tableExists' = tableExists
            /\ (init_database_return(p) /\ serving = "boot")
                  => serving' = IF proc[p].raised THEN "aborted" ELSE "up"
            /\ serving = "aborted" => serving' = "aborted"]_vars
\* init_database has run to its end again, over a table that holds rows.
C18_Witness ==
    \E p \in Procs :
        /\ proc[p].handler = "init_database" /\ proc[p].pc = "done"
        /\ ~proc[p].raised /\ proc[p].closed = 1
        /\ serving = "up"
        /\ Cardinality(banks) = 2
\* The creation failed at startup: the application is not serving.
C18_AbortedWitness == serving = "aborted"

\* The step is one of the request of p, which only reads.
C19_ReadStep(p) ==
    /\ proc'[p] # proc[p]
    /\ LET r == IF proc[p].pc = "idle" THEN proc'[p] ELSE proc[p]
       IN \/ r.handler \in {"index", "view_bank", "api_get_banks", "api_get_bank"}
          \/ r.handler \in {"create_bank", "edit_bank"} /\ r.method = "GET"
\* The step ends the request of p with a 400 or a 404.
C19_Refused(p) ==
    /\ proc[p].pc # "done" /\ proc'[p].pc = "done"
    /\ proc'[p].resp.status \in {400, 404}
\* The step is the commit of the request of p, and it succeeds.
C19_Commits(p, op) ==
    /\ proc[p].pc = "commit" /\ proc[p].conn.pending.op = op
    /\ proc'[p] # proc[p]
    /\ ~C13_ReportsFault(proc'[p], proc'[p].resp.notices \o session')
    /\ proc'[p].pc \in {"done", "identity"}
\* C19: read requests and every request answered 400 or 404 leave the table
\* unchanged; a successful update or delete of an id changes or removes only
\* the row with that id; a successful create adds exactly one row; every
\* other row is left as it was.
C19_Frame ==
    [][/\ banks' # banks =>
             \E p \in Procs : \E op \in {"insert", "update", "delete"} :
                 C19_Commits(p, op) /\ proc[p].rowcount >= 0
       /\ \A p \in Procs :
             /\ C19_ReadStep(p) => (banks' = banks /\ proc'[p].rowcount = -1)
             /\ C19_Refused(p) => (banks' = banks /\ proc'[p].rowcount = -1)
             /\ C19_Commits(p, "update")
                   => /\ \A b \in banks : b.id # proc[p].bank_id => b \in banks'
                      /\ \A b \in banks' :
                            b \in banks \/ b = Row(proc[p].bank_id, proc[p].name,
                                                   proc[p].location)
                      /\ RowIds(banks') = RowIds(banks)
             /\ C19_Commits(p, "delete")
                   => banks' = {b \in banks : b.id # proc[p].bank_id}
             /\ C19_Commits(p, "insert")
                   => /\ banks \subseteq banks'
                      /\ Cardinality(banks') = Cardinality(banks) + 1
                      /\ \E i \in 1..nextId :
                            banks' \ banks = {Row(i, proc[p].name, proc[p].location)}]_vars
\* An update of one of two banks answered 200: the other row is as it was.
C19_Witness ==
    \E p \in Procs :
        /\ Done(p, "api_update_bank") /\ proc[p].resp.status = 200
        /\ Cardinality(banks) = 2
        /\ \E b \in banks : b.id # proc[p].bank_id /\ b.name # proc[p].name
        /\ Row(proc[p].bank_id, proc[p].name, proc[p].location) \in banks
\* A delete of one of two banks answered 200: the other row remains.
C19_DeleteWitness ==
    \E p \in Procs :
        /\ Done(p, "api_delete_bank") /\ proc[p].resp.status = 200
        /\ Cardinality(banks) = 1
        /\ proc[p].bank_id \notin RowIds(banks)

=============================================================================
